---- MODULE Spec2Model ----
(***************************************************************************)
(* A model of email_lib (src/lib.py): the history container _Hist, the     *)
(* recipient list _Recipients, the composition of a Message (_encoding,    *)
(* _as_mime_text, _make, with Attachment.make), and EmailServer with its   *)
(* connection life cycle (_connect_to_server, _log_in,                     *)
(* _send_individual_message, _test, send).  The smtplib session is the     *)
(* environment: every call the code makes on it is logged in `wire` with   *)
(* the outcome the session chose.  The composition calls are pure: they    *)
(* run under SpecCompose, which draws their arguments in its initial       *)
(* states.                                                                 *)
(***************************************************************************)
EXTENDS Naturals, Sequences, FiniteSets, TLC

(* ------------------------------ bounds --------------------------------- *)

\* Longest list of objects handed to send().
MaxBatch == 3

\* Longest history a send() may grow to.
MaxPast == 3

\* Direct calls a client makes on a _Hist used on its own.
MaxCalls == 4

\* Longest list of recipients handed to _Recipients.
MaxRecipients == 3

\* Longest text handed to Message._encoding or given as a body.
MaxText == 3

\* Longest list of attachments given to a Message.
MaxAttachments == 2

(* ------------------------------ values --------------------------------- *)

None == "None"

\* (username, password) pairs given to EmailServer.__init__; a credential
\* is absent, pure ASCII text ("ascii"), a unicode object with a non-ASCII
\* character ("uni") or a byte string with a non-ASCII byte ("bytes").
Credentials ==
    {<<None, None>>, <<"ascii", None>>, <<None, "ascii">>,
     <<"ascii", "ascii">>, <<"uni", "ascii">>, <<"ascii", "bytes">>}

\* (host, port) pairs given to EmailServer.__init__: each a byte string
\* ("str"), a unicode object of ASCII characters ("unicode") or a unicode
\* object with a non-ASCII character ("uni").
Endpoints == {<<"str", "str">>, <<"unicode", "unicode">>, <<"uni", "str">>}

\* unicode(x) decodes a byte string as ASCII: it fails on a non-ASCII byte.
CanUnicode(x) == x # "bytes"

\* str(x) encodes a unicode object as ASCII: it fails on a non-ASCII char.
CanStr(x) == x # "uni"

\* Objects a caller may hand to send(): two well-formed Message objects, a
\* Message whose attachment file cannot be read, and an object that is no
\* Message (no from_, to, make, _is_message).
Messages == {"m1", "m2", "m_io"}
Objects == Messages \cup {"obj"}

\* message.from_ and message.to of each Message.
MsgFrom(m) == "me@x"

MsgTo(m) ==
    CASE m = "m1" -> <<"a@x", "b@x", "a@x">>
      [] m = "m2" -> <<"c@x">>
      [] OTHER    -> <<"a@x">>

\* hasattr(x, '_is_message') / the attribute probe of
\* _send_individual_message.
HasMessageAttrs(x) == x \in Messages

\* unicode(message): Message.make() reads every attachment file.
CanSerialize(m) == m # "m_io"

Range(s) == {s[i] : i \in 1..Len(s)}

(* --------------------------- _Recipients ------------------------------- *)

\* Addresses; "ue@x" stands for one with a non-ASCII character.
Addresses == {"a@x", "b@x", "ue@x"}

IsAscii(text) == text # "ue@x"

\* A recipient as the caller gives it: a byte string ("str") or a unicode
\* object ("unicode") holding the characters of an address.
RecipientValues == [kind : {"str", "unicode"}, text : Addresses]

\* unicode(recipient), line 158, decodes a byte string as ASCII: it raises
\* UnicodeDecodeError on a non-ASCII byte.
CanDecode(recipient) == recipient.kind = "unicode" \/ IsAscii(recipient.text)

\* unicode(recipient), line 158: the unicode object of the same characters,
\* whichever kind of string was given.
unicode_(recipient) == recipient.text

RECURSIVE remove_duplicates_from(_, _)
remove_duplicates_from(recipients, unique_recipients) ==
    IF recipients = <<>> THEN unique_recipients
    ELSE remove_duplicates_from(
             Tail(recipients),
             IF Head(recipients) \in Range(unique_recipients)
                 THEN unique_recipients
                 ELSE Append(unique_recipients, Head(recipients)))

\* As remove_duplicates, with the last occurrence of a value kept instead
\* of the first.
RECURSIVE remove_duplicates_keeping_last(_)
remove_duplicates_keeping_last(recipients) ==
    IF recipients = <<>> THEN <<>>
    ELSE IF Head(recipients) \in Range(Tail(recipients))
        THEN remove_duplicates_keeping_last(Tail(recipients))
        ELSE <<Head(recipients)>> \o remove_duplicates_keeping_last(Tail(recipients))

remove_duplicates(recipients) == remove_duplicates_from(recipients, <<>>)

(* ------------------------------ _Hist ---------------------------------- *)

\* _Hist(record): the flag is set, the list starts empty.
HistInit(record) == [is_recording |-> record, past |-> <<>>]

set_recording(h, should_record) == [h EXCEPT !.is_recording = should_record]

is_recording(h) == h.is_recording

\* As clear, with nothing done while recording is off.
clear_if_recording(h) == IF h.is_recording THEN [h EXCEPT !.past = <<>>] ELSE h

clear(h) == [h EXCEPT !.past = <<>>]

add(h, item) ==
    IF h.is_recording THEN [h EXCEPT !.past = Append(@, item)] ELSE h

(* ------------------------------ state ---------------------------------- *)

VARIABLES
    host,       \* EmailServer.host
    port,       \* EmailServer.port
    username,   \* EmailServer.username
    password,   \* EmailServer.password
    record_hist,\* the record_hist argument of EmailServer.__init__
    hist,       \* EmailServer.hist: [is_recording, past]
    calls,      \* the calls made on a _Hist used on its own, in order
    pc,         \* where the running call stands: "idle" between calls,
                \* "ended" when it has returned or raised
    call,       \* the call running or last run: "none", "send", "test"
    messages,   \* the argument of send(): [one, items]
    idx,        \* position of the for loop of send() in the batch
    conn,       \* the transport connection: "none", "open", "closed"
    wire,       \* the calls made on the smtplib session, with outcomes
    result,     \* how the last call ended: "returned" or the exception
    entry_hist, \* hist when the running call was entered
    task,       \* a composition call being made: [op, arg]
    ret         \* what the composition call gave: [state, err, value]

vars == <<host, port, username, password, record_hist, hist, calls, pc, call,
          messages, idx, conn, wire, result, entry_hist, task, ret>>

composing == <<task, ret>>

endpoint == <<host, port>>

server_fields == <<username, password, record_hist>>

NoInput == [one |-> FALSE, items |-> <<>>]

\* One call on the session: what was called, with what, and what came back.
Ev(op, arg, res, errors) ==
    [op |-> op, arg |-> arg, res |-> res, errors |-> errors]

\* A direct call on the history object.
HistCall(op, flag, item) == [op |-> op, flag |-> flag, item |-> item]

\* No composition call is being made.
NoTask == [op |-> "none", arg |-> <<>>]

\* The composition call has not run; it returned value; it raised err.
NotRun == [state |-> "not run", err |-> "none", value |-> <<>>]
Returned(value) == [state |-> "done", err |-> "none", value |-> value]
Raised(err) == [state |-> "done", err |-> err, value |-> <<>>]

\* An EmailServer after __init__, with no call made on it.
ServerInit ==
    /\ \E e \in Endpoints : host = e[1] /\ port = e[2]
    /\ \E c \in Credentials : username = c[1] /\ password = c[2]
    /\ record_hist \in BOOLEAN
    /\ hist = HistInit(record_hist)
    /\ calls = <<>>
    /\ pc = "idle"
    /\ call = "none"
    /\ messages = NoInput
    /\ idx = 1
    /\ conn = "none"
    /\ wire = <<>>
    /\ result = "none"
    /\ entry_hist = hist

Init ==
    /\ ServerInit
    /\ task = NoTask
    /\ ret = NotRun

(* ----------------------- what the session may do ----------------------- *)

\* smtplib.SMTP(host, port): connected, a name-resolution failure
\* (socket.gaierror), a refused connection (socket.error), or a greeting
\* the library rejects (SMTPConnectError, the socket closed by the library).
ConnectOutcomes == {"ok", "gaierror", "refused", "SMTPConnectError"}

\* starttls(): it returns, which is taken as the session upgraded, or it
\* raises.
StartTlsOutcomes == {"ok", "SMTPException"}

\* login(): accepted, the credentials refused, or the HELO/EHLO refused.
LoginOutcomes == {"ok", "SMTPAuthenticationError", "SMTPHeloError"}

SendmailFailures ==
    {"SMTPSenderRefused", "SMTPRecipientsRefused", "SMTPDataError"}

\* sendmail returns one entry per refused recipient, and raises
\* SMTPRecipientsRefused instead when every recipient is refused.
RejectionMaps(to) == {S \in SUBSET Range(to) : S # Range(to)}

\* Arguments of send(): one object, or a list of objects.
BatchesOfLen(n) == [1..n -> Objects]
Inputs ==
    {[one |-> TRUE, items |-> <<x>>] : x \in Objects}
    \cup {[one |-> FALSE, items |-> s] :
            s \in UNION {BatchesOfLen(n) : n \in 0..MaxBatch}}

\* The for loop of send() iterates a list; a single object is wrapped in a
\* list only when it has _is_message.
Iterable(inp) == IF inp.one THEN HasMessageAttrs(inp.items[1]) ELSE TRUE

(* ---------------------------- EmailServer ------------------------------ *)

\* The exception leaves the call: nothing after the raising line runs.
Raise(exc) ==
    /\ pc' = "ended"
    /\ result' = exc

\* As HasCredentials, with one credential being enough.
HasCredentials_either == username # None \/ password # None

\* _log_in, line 343.
HasCredentials == username # None /\ password # None

\* What follows _connect_to_server: the loop of send(), or quit() in _test.
AfterConnect == IF call = "send" THEN "send_loop" ELSE "quit"

\* send(messages), line 414: the call is entered.
send(inp) ==
    /\ pc = "idle"
    /\ Len(hist.past) + Len(inp.items) <= MaxPast
    /\ call' = "send"
    /\ messages' = inp
    /\ idx' = 1
    /\ conn' = "none"
    /\ wire' = <<>>
    /\ result' = "running"
    /\ entry_hist' = hist
    /\ pc' = "connect"
    /\ UNCHANGED <<composing, endpoint, server_fields, hist, calls>>

\* _test(), line 407: the call is entered.
test ==
    /\ pc = "idle"
    /\ call' = "test"
    /\ messages' = NoInput
    /\ idx' = 1
    /\ conn' = "none"
    /\ wire' = <<>>
    /\ result' = "running"
    /\ entry_hist' = hist
    /\ pc' = "connect"
    /\ UNCHANGED <<composing, endpoint, server_fields, hist, calls>>

\* _connect_to_server, lines 358-362: a unicode host or port is replaced
\* by its str() form.
AsStr(x) == IF x = "unicode" THEN "str" ELSE x

\* _connect_to_server, lines 358-368: the host and the port are converted,
\* then the session is opened; only socket.gaierror is caught and re-raised
\* as ValueError, every other failure leaves as it is.
connect(o) ==
    /\ pc = "connect"
    /\ IF ~CanStr(host)
          THEN /\ Raise("UnicodeEncodeError")
               /\ UNCHANGED <<host, port, wire, conn>>
       ELSE IF ~CanStr(port)
          THEN /\ Raise("UnicodeEncodeError")
               /\ host' = AsStr(host)
               /\ UNCHANGED <<port, wire, conn>>
       ELSE /\ host' = AsStr(host)
            /\ port' = AsStr(port)
            /\ wire' = Append(wire, Ev("connect", "-", o, {}))
            /\ CASE o = "ok"       -> /\ conn' = "open"
                                      /\ pc' = "starttls"
                                      /\ UNCHANGED result
                 [] o = "gaierror" -> /\ Raise("ValueError")
                                      /\ UNCHANGED conn
                 [] o = "refused"  -> /\ Raise("socket.error")
                                      /\ UNCHANGED conn
                 [] OTHER          -> /\ Raise(o)
                                      /\ UNCHANGED conn
    /\ UNCHANGED <<composing, server_fields, hist, calls, call, messages, idx,
                 entry_hist>>

\* As starttls, with the upgrade made only when there are credentials.
starttls_only_with_credentials(o) ==
    /\ pc = "starttls"
    /\ IF username # None /\ password # None
          THEN /\ wire' = Append(wire, Ev("starttls", "-", o, {}))
               /\ IF o = "ok"
                     THEN pc' = "login" /\ UNCHANGED result
                     ELSE pc' = "ended" /\ result' = o
          ELSE /\ pc' = "login"
               /\ UNCHANGED <<wire, result>>
    /\ UNCHANGED <<composing, endpoint, server_fields, hist, calls, call, messages, idx, conn,
                   entry_hist>>

\* _connect_to_server, line 370.
starttls(o) ==
    /\ pc = "starttls"
    /\ wire' = Append(wire, Ev("starttls", "-", o, {}))
    /\ IF o = "ok"
          THEN pc' = "login" /\ UNCHANGED result
          ELSE Raise(o)
    /\ UNCHANGED <<composing, endpoint, server_fields, hist, calls, call, messages, idx, conn,
                   entry_hist>>

\* As log_in, with the retry made after any failure of the first login.
log_in_retry_on_any_failure(o) ==
    /\ pc = "login"
    /\ IF ~(username # None /\ password # None)
          THEN /\ pc' = IF call = "send" THEN "send_loop" ELSE "quit"
               /\ UNCHANGED <<wire, result>>
          ELSE IF ~(CanUnicode(username) /\ CanUnicode(password))
          THEN /\ pc' = "ended" /\ result' = "UnicodeDecodeError"
               /\ UNCHANGED wire
          ELSE /\ wire' = Append(wire, Ev("login", "unicode", o, {}))
               /\ IF o = "ok"
                     THEN pc' = IF call = "send" THEN "send_loop" ELSE "quit"
                     ELSE pc' = "login_retry"
               /\ UNCHANGED result
    /\ UNCHANGED <<composing, endpoint, server_fields, hist, calls, call, messages, idx, conn,
                   entry_hist>>

\* _log_in, lines 343-346: nothing without both credentials; else a first
\* login with the unicode() form of both.
log_in(o) ==
    /\ pc = "login"
    /\ IF ~HasCredentials
          THEN /\ pc' = AfterConnect
               /\ UNCHANGED <<wire, result>>
          ELSE IF ~(CanUnicode(username) /\ CanUnicode(password))
          THEN /\ Raise("UnicodeDecodeError")
               /\ UNCHANGED wire
          ELSE /\ wire' = Append(wire, Ev("login", "unicode", o, {}))
               /\ CASE o = "ok" -> pc' = AfterConnect /\ UNCHANGED result
                    [] o = "SMTPAuthenticationError" ->
                           pc' = "login_retry" /\ UNCHANGED result
                    [] OTHER -> Raise(o)
    /\ UNCHANGED <<composing, endpoint, server_fields, hist, calls, call, messages, idx, conn,
                   entry_hist>>

\* _log_in, lines 347-351: after an authentication failure, one more login
\* with the str() form; a second authentication failure is a ValueError.
log_in_retry(o) ==
    /\ pc = "login_retry"
    /\ IF ~(CanStr(username) /\ CanStr(password))
          THEN /\ Raise("UnicodeEncodeError")
               /\ UNCHANGED wire
          ELSE /\ wire' = Append(wire, Ev("login", "str", o, {}))
               /\ CASE o = "ok" -> pc' = AfterConnect /\ UNCHANGED result
                    [] o = "SMTPAuthenticationError" -> Raise("ValueError")
                    [] OTHER -> Raise(o)
    /\ UNCHANGED <<composing, endpoint, server_fields, hist, calls, call, messages, idx, conn,
                   entry_hist>>

\* The record _send_individual_message hands to hist.add (the wire text
\* and the time stamp are left out).
Info(message, errors) ==
    [message |-> message,
     from_   |-> MsgFrom(message),
     to      |-> remove_duplicates(MsgTo(message)),
     errors  |-> errors]

\* As sendmail_returns, with refused recipients treated as a failure.
sendmail_returns_strict(message, errors) ==
    /\ wire' = Append(wire, Ev("sendmail", message, "ok", errors))
    /\ IF errors = {}
          THEN /\ hist' = add(hist, Info(message, errors))
               /\ idx' = idx + 1
               /\ UNCHANGED <<pc, result>>
          ELSE /\ pc' = "ended"
               /\ result' = "SMTPRecipientsRefused"
               /\ UNCHANGED <<hist, idx>>

\* As sendmail_returns, with the record put at the front of the history.
sendmail_returns_prepending(message, errors) ==
    /\ wire' = Append(wire, Ev("sendmail", message, "ok", errors))
    /\ hist' = IF hist.is_recording
                  THEN [hist EXCEPT !.past = <<Info(message, errors)>> \o @]
                  ELSE hist
    /\ idx' = idx + 1
    /\ UNCHANGED <<pc, result>>

\* _send_individual_message, lines 393 and 396-399: sendmail returned the
\* map of refused recipients; the record is added and the loop goes on.
sendmail_returns(message, errors) ==
    /\ wire' = Append(wire, Ev("sendmail", message, "ok", errors))
    /\ hist' = add(hist, Info(message, errors))
    /\ idx' = idx + 1
    /\ UNCHANGED <<pc, result>>

\* As sendmail_raises, with the refusal swallowed and the loop going on.
sendmail_raises_swallowed(message, o) ==
    /\ wire' = Append(wire, Ev("sendmail", message, o, {}))
    /\ idx' = idx + 1
    /\ UNCHANGED <<hist, pc, result>>

\* As sendmail_raises, with the record added before the exception leaves.
sendmail_raises_recorded(message, o) ==
    /\ wire' = Append(wire, Ev("sendmail", message, o, {}))
    /\ hist' = add(hist, Info(message, {}))
    /\ Raise(o)
    /\ UNCHANGED idx

\* _send_individual_message, lines 393-395: sendmail raised; the exception
\* leaves send() (SMTPSenderRefused re-raised, any other not caught).
sendmail_raises(message, o) ==
    /\ wire' = Append(wire, Ev("sendmail", message, o, {}))
    /\ Raise(o)
    /\ UNCHANGED <<hist, idx>>

\* send(), line 421, and _send_individual_message: one pass of the loop.
send_individual_message ==
    /\ pc = "send_loop"
    /\ Iterable(messages)
    /\ idx <= Len(messages.items)
    /\ LET message == messages.items[idx]
           to == remove_duplicates(MsgTo(message))
       IN  IF ~HasMessageAttrs(message)
              THEN /\ Raise("AttributeError")
                   /\ UNCHANGED <<wire, hist, idx>>
           ELSE IF ~CanSerialize(message)
              THEN /\ Raise("IOError")
                   /\ UNCHANGED <<wire, hist, idx>>
           ELSE \/ \E errors \in RejectionMaps(to) :
                      sendmail_returns(message, errors)
                \/ \E o \in SendmailFailures :
                      sendmail_raises(message, o)
    /\ UNCHANGED <<composing, endpoint, server_fields, calls, call, messages, conn, entry_hist>>

\* send(), line 421: a single object that is no Message is iterated as it
\* is, which fails.
send_not_iterable ==
    /\ pc = "send_loop"
    /\ ~Iterable(messages)
    /\ Raise("TypeError")
    /\ UNCHANGED <<composing, endpoint, server_fields, hist, calls, call, messages, idx, conn,
                   wire, entry_hist>>

\* send(), line 421: the loop is over.
send_loop_exit ==
    /\ pc = "send_loop"
    /\ Iterable(messages)
    /\ idx > Len(messages.items)
    /\ pc' = "quit"
    /\ UNCHANGED <<composing, endpoint, server_fields, hist, calls, call, messages, idx, conn,
                   wire, result, entry_hist>>

\* server.quit(), the connection closed.
session_quit ==
    /\ wire' = Append(wire, Ev("quit", "-", "ok", {}))
    /\ conn' = "closed"

\* send(), line 424: quit, and the call returns.
send_quit ==
    /\ pc = "quit"
    /\ call = "send"
    /\ session_quit
    /\ pc' = "ended"
    /\ result' = "returned"
    /\ UNCHANGED <<composing, endpoint, server_fields, hist, calls, call, messages, idx, entry_hist>>

\* As test_quit, returning without the quit.
test_quit_without_close ==
    /\ pc = "quit"
    /\ call = "test"
    /\ pc' = "ended"
    /\ result' = "returned"
    /\ UNCHANGED <<composing, endpoint, server_fields, hist, calls, call, messages, idx, conn,
                   wire, entry_hist>>

\* _test(), line 408: quit, and the call returns.
test_quit ==
    /\ pc = "quit"
    /\ call = "test"
    /\ session_quit
    /\ pc' = "ended"
    /\ result' = "returned"
    /\ UNCHANGED <<composing, endpoint, server_fields, hist, calls, call, messages, idx, entry_hist>>

\* The call has returned or raised and its caller goes on (the command
\* line's _try_to_send sends again after a failure); the server keeps its
\* fields and its history, and nothing else of the call.
caller_resumes ==
    /\ pc = "ended"
    /\ pc' = "idle"
    /\ call' = "none"
    /\ messages' = NoInput
    /\ idx' = 1
    /\ conn' = "none"
    /\ wire' = <<>>
    /\ result' = "none"
    /\ entry_hist' = hist
    /\ UNCHANGED <<composing, endpoint, server_fields, hist, calls>>

(* ------------------- direct use of the history object ------------------ *)

\* Items a client adds by hand.
Items == {Info("m1", {}), Info("m2", {})}

hist_set_recording(should_record) ==
    /\ pc = "idle"
    /\ hist' = set_recording(hist, should_record)
    /\ entry_hist' = hist'
    /\ UNCHANGED <<composing, endpoint, server_fields, pc, call, messages, idx, conn, wire, result>>

hist_clear ==
    /\ pc = "idle"
    /\ hist' = clear(hist)
    /\ entry_hist' = hist'
    /\ UNCHANGED <<composing, endpoint, server_fields, pc, call, messages, idx, conn, wire, result>>

hist_add(item) ==
    /\ pc = "idle"
    /\ hist' = add(hist, item)
    /\ entry_hist' = hist'
    /\ UNCHANGED <<composing, endpoint, server_fields, pc, call, messages, idx, conn, wire, result>>

\* A _Hist used on its own, its calls logged as they are made.
NoItem == Info("m2", {})

Logged(op, flag, item) ==
    /\ Len(calls) < MaxCalls
    /\ calls' = Append(calls, HistCall(op, flag, item))

(* --------------------------- specifications ---------------------------- *)

\* A client of EmailServer, which may also switch or clear server.hist
\* between calls.
Next ==
    \/ \E inp \in Inputs : send(inp)
    \/ test
    \/ \E o \in ConnectOutcomes : connect(o)
    \/ \E o \in StartTlsOutcomes : starttls(o)
    \/ \E o \in LoginOutcomes : log_in(o)
    \/ \E o \in LoginOutcomes : log_in_retry(o)
    \/ send_individual_message
    \/ send_not_iterable
    \/ send_loop_exit
    \/ send_quit
    \/ test_quit
    \/ caller_resumes
    \/ \E b \in BOOLEAN : hist_set_recording(b) /\ UNCHANGED calls
    \/ hist_clear /\ UNCHANGED calls

Spec == Init /\ [][Next]_vars

\* A client of a _Hist on its own.
NextHist ==
    \/ \E b \in BOOLEAN :
          hist_set_recording(b) /\ Logged("set_recording", b, NoItem)
    \/ hist_clear /\ Logged("clear", FALSE, NoItem)
    \/ \E item \in Items : hist_add(item) /\ Logged("add", FALSE, item)

SpecHist == Init /\ [][NextHist]_vars

(* -------------------------- composition calls -------------------------- *)

\* Arguments of _Recipients(recipients): one string, or a list of strings.
RecipientListsOfLen(n) == [1..n -> RecipientValues]
RecipientInputs ==
    {[one |-> TRUE, items |-> <<r>>] : r \in RecipientValues}
    \cup {[one |-> FALSE, items |-> s] :
            s \in UNION {RecipientListsOfLen(n) : n \in 0..MaxRecipients}}

\* _Recipients._make, lines 164-172, with _remove_duplicates: a single
\* string (isinstance basestring) is wrapped in a list; every element goes
\* through unicode() (line 158), which raises at the first that cannot be
\* decoded; a value already in the list is not appended again.
Recipients_make(inp) ==
    LET recipients == IF inp.one THEN <<inp.items[1]>> ELSE inp.items
    IN  IF \E i \in 1..Len(recipients) : ~CanDecode(recipients[i])
           THEN Raised("UnicodeDecodeError")
           ELSE Returned(remove_duplicates(
                    [i \in 1..Len(recipients) |-> unicode_(recipients[i])]))

\* constants.py, lines 9-13.
ASCII == "us-ascii"
ISO == "iso-8859-1"
UTF == "utf8"
ENCODINGS == <<ASCII, ISO, UTF>>

\* Characters by code point: "a", e-acute (in ISO-8859-1, not in ASCII) and
\* the euro sign (in neither).
Chars == {97, 233, 8364}

\* Unicode texts, as the sequences of their code points.
TextsOfLen(n) == [1..n -> Chars]
Texts == UNION {TextsOfLen(n) : n \in 0..MaxText}

\* character.encode(encoding) succeeds.
CharEncodes(c, encoding) ==
    CASE encoding = ASCII -> c < 128
      [] encoding = ISO   -> c < 256
      [] OTHER            -> TRUE

\* text.encode(encoding), lines 223 and 236: UnicodeEncodeError unless
\* every character has a code in the encoding.
CanEncode(text, encoding) ==
    \A i \in 1..Len(text) : CharEncodes(text[i], encoding)

\* Message._encoding, lines 220-229: the for loop from candidate i on; a
\* candidate that encodes the text breaks the loop, and the loop variable
\* is returned also when the candidates run out.
RECURSIVE encoding_from(_, _)
encoding_from(text, i) ==
    IF CanEncode(text, ENCODINGS[i]) \/ i = Len(ENCODINGS)
        THEN ENCODINGS[i]
        ELSE encoding_from(text, i + 1)

\* As encoding, with the last candidate that encodes the text returned.
encoding_widest(text) ==
    ENCODINGS[CHOOSE i \in 1..Len(ENCODINGS) :
                 /\ CanEncode(text, ENCODINGS[i])
                 /\ \A j \in (i + 1)..Len(ENCODINGS) :
                        ~CanEncode(text, ENCODINGS[j])]

encoding(text) == encoding_from(text, 1)

\* Message._as_mime_text, lines 231-240: the text part, with the bytes of
\* the body in the chosen character set.
as_mime_text(text) ==
    [kind |-> "text", of |-> "body", charset |-> encoding(text),
     payload |-> text]

\* Objects a caller may put among the attachments: two Attachment objects,
\* an Attachment whose file cannot be read, and an object that is no
\* Attachment (no _is_attachment, no make, no __iter__).
Attachments == {"att1", "att2", "att_io"}
AttachmentObjects == Attachments \cup {"obj"}

\* The probe of lines 267-269: attachment._is_attachment, attachment.make.
HasAttachmentAttrs(x) == x \in Attachments

\* Attachment.make(), lines 113-119: open(path) raises IOError.
CanMake(attachment) == attachment # "att_io"

\* Attachment.make(), lines 113-119: the MIME part of the file.
attachment_make(attachment) ==
    [kind |-> "attachment", of |-> attachment, charset |-> "none",
     payload |-> <<>>]

\* As attach_from, with the attachments attached last first.
attach_from_last_first(attachments, parts) ==
    IF \E i \in 1..Len(attachments) : ~HasAttachmentAttrs(attachments[i])
        THEN Raised("AttributeError")
    ELSE IF \E i \in 1..Len(attachments) : ~CanMake(attachments[i])
        THEN Raised("IOError")
    ELSE Returned(parts \o [i \in 1..Len(attachments) |->
                     attachment_make(attachments[Len(attachments) + 1 - i])])

\* Message._make, lines 266-275: the for loop over what is left of the
\* attachments, after `parts` have been attached.
RECURSIVE attach_from(_, _)
attach_from(attachments, parts) ==
    IF attachments = <<>> THEN Returned(parts)
    ELSE IF ~HasAttachmentAttrs(Head(attachments))
        THEN Raised("AttributeError")
    ELSE IF ~CanMake(Head(attachments))
        THEN Raised("IOError")
    ELSE attach_from(Tail(attachments),
                     Append(parts, attachment_make(Head(attachments))))

\* A body as the caller gives it: a unicode object, or a byte string.
Bytes == {c \in Chars : c < 256}
ByteStringsOfLen(n) == [1..n -> Bytes]
Bodies ==
    {[kind |-> "unicode", text |-> t] : t \in Texts}
    \cup {[kind |-> "str", text |-> t] :
            t \in UNION {ByteStringsOfLen(n) : n \in 0..MaxText}}

\* unicode(body), line 246, decodes a byte string as ASCII.
CanDecodeBody(body) == body.kind = "unicode" \/ CanEncode(body.text, ASCII)

\* The attachments argument: one object, or a list of objects.
AttachmentListsOfLen(n) == [1..n -> AttachmentObjects]
AttachmentInputs ==
    {[one |-> TRUE, items |-> <<x>>] : x \in AttachmentObjects}
    \cup {[one |-> FALSE, items |-> s] :
            s \in UNION {AttachmentListsOfLen(n) : n \in 0..MaxAttachments}}

\* The fields of a Message: from_ and subject are pure ASCII text
\* ("ascii"), a unicode object with a non-ASCII character ("uni") or a byte
\* string with a non-ASCII byte ("bytes"); to is one recipient.
MessageFields ==
    [from_ : {"ascii", "uni", "bytes"},
     to : {inp \in RecipientInputs :
              inp.one /\ inp.items[1].text \in {"a@x", "ue@x"}},
     subject : {"ascii", "uni", "bytes"},
     body : Bodies,
     attachments : AttachmentInputs]

\* Message._make, lines 242-277, in the order of its statements: the
\* conversions of lines 244-247, the attachments made a list (lines
\* 249-255: an object without __iter__ is wrapped), the From and To
\* headers through str() (lines 259-260), the text part attached (line
\* 265), then the loop over the attachments.
Message_make(m) ==
    LET to == Recipients_make(m.to)
        attachments == IF m.attachments.one
                          THEN <<m.attachments.items[1]>>
                          ELSE m.attachments.items
    IN  IF ~CanUnicode(m.from_) THEN Raised("UnicodeDecodeError")
        ELSE IF to.err # "none" THEN Raised(to.err)
        ELSE IF ~CanDecodeBody(m.body) THEN Raised("UnicodeDecodeError")
        ELSE IF ~CanUnicode(m.subject) THEN Raised("UnicodeDecodeError")
        ELSE IF ~CanStr(m.from_) THEN Raised("UnicodeEncodeError")
        ELSE IF \E i \in 1..Len(to.value) : ~IsAscii(to.value[i])
            THEN Raised("UnicodeEncodeError")
        ELSE attach_from(attachments, <<as_mime_text(m.body.text)>>)

\* _Recipients(recipients), lines 141-144: the constructor runs _make.
call_Recipients ==
    /\ task.op = "recipients"
    /\ ret.state = "not run"
    /\ ret' = Recipients_make(task.arg)
    /\ UNCHANGED <<endpoint, server_fields, hist, calls, pc, call, messages, idx,
                   conn, wire, result, entry_hist, task>>

\* Message.make(), lines 279-285.
call_make ==
    /\ task.op = "make"
    /\ ret.state = "not run"
    /\ ret' = Message_make(task.arg)
    /\ UNCHANGED <<endpoint, server_fields, hist, calls, pc, call, messages, idx,
                   conn, wire, result, entry_hist, task>>

\* Message._encoding(text), lines 220-229.
call_encoding ==
    /\ task.op = "encoding"
    /\ ret.state = "not run"
    /\ ret' = Returned(encoding(task.arg))
    /\ UNCHANGED <<endpoint, server_fields, hist, calls, pc, call, messages, idx,
                   conn, wire, result, entry_hist, task>>

\* A composition call is about to be made on some argument; no server
\* takes part.
InitCompose ==
    /\ host = "str" /\ port = "str"
    /\ username = None /\ password = None
    /\ record_hist = FALSE
    /\ hist = HistInit(record_hist)
    /\ calls = <<>>
    /\ pc = "idle"
    /\ call = "none"
    /\ messages = NoInput
    /\ idx = 1
    /\ conn = "none"
    /\ wire = <<>>
    /\ result = "none"
    /\ entry_hist = hist
    /\ ret = NotRun
    /\ \/ \E inp \in RecipientInputs :
              task = [op |-> "recipients", arg |-> inp]
       \/ \E m \in MessageFields : task = [op |-> "make", arg |-> m]
       \/ \E text \in Texts : task = [op |-> "encoding", arg |-> text]

NextCompose ==
    \/ call_Recipients
    \/ call_make
    \/ call_encoding

SpecCompose == InitCompose /\ [][NextCompose]_vars

(* ------------------------- reading the state --------------------------- *)

IsSendmail(e) == e.op = "sendmail"
IsLogin(e) == e.op = "login"
IsQuit(e) == e.op = "quit"

\* The submissions, the login attempts and the closes of the call, in order.
Sends == SelectSeq(wire, IsSendmail)
Logins == SelectSeq(wire, IsLogin)
Quits == SelectSeq(wire, IsQuit)

\* A call was made and is over.
Ended == pc = "ended"

\* The call opened a connection.
Opened == wire # <<>> /\ wire[1].op = "connect" /\ wire[1].res = "ok"

BatchLen == Len(messages.items)

\* The records of the first n submissions of the call.
RecordsOf(n) == [i \in 1..n |-> Info(Sends[i].arg, Sends[i].errors)]

\* What the call added to the history.
Added == SubSeq(hist.past, Len(entry_hist.past) + 1, Len(hist.past))

KeepsEntries ==
    /\ Len(hist.past) >= Len(entry_hist.past)
    /\ SubSeq(hist.past, 1, Len(entry_hist.past)) = entry_hist.past
    /\ hist.is_recording = entry_hist.is_recording

(* -------------------------------- C1 ----------------------------------- *)

\* C1: once a send() or _test() call has opened a connection, the
\* connection is closed exactly once by the time the call returns or
\* raises, whatever the exit path; none is left open after the call.
C1_ClosedOnEveryExit ==
    Ended /\ Opened => Len(Quits) = 1 /\ conn = "closed"

(* -------------------------------- C2 ----------------------------------- *)

\* C2: when sendmail refuses the sender on message k of the batch, the
\* refusal is what send() raises, messages k+1.. are never submitted (the
\* refused submission is the last one, and the submissions are messages
\* 1..k in order), and the history gains the records of messages 1..k-1
\* and no other when recording is on, and nothing when it is off.
C2_SenderRefusalStopsBatch ==
    \A k \in 1..Len(Sends) :
        Sends[k].res = "SMTPSenderRefused" =>
            /\ pc = "ended"
            /\ result = "SMTPSenderRefused"
            /\ k = Len(Sends)
            /\ k <= BatchLen
            /\ \A i \in 1..k : Sends[i].arg = messages.items[i]
            /\ \A i \in 1..(k - 1) : Sends[i].res = "ok"
            /\ KeepsEntries
            /\ Added = IF entry_hist.is_recording THEN RecordsOf(k - 1) ELSE <<>>

\* The sender is refused on message 2 of 3 with recording on: one record.
C2_Witness ==
    /\ Ended
    /\ BatchLen = 3
    /\ Len(Sends) = 2
    /\ Sends[2].res = "SMTPSenderRefused"
    /\ hist.is_recording
    /\ Len(Added) = 1

(* -------------------------------- C3 ----------------------------------- *)

\* C3: when send() returns, every message of the batch was submitted, once
\* and in input order; with recording on the history grew by exactly one
\* record per message, in that order; with recording off it did not grow
\* (and a history that was empty is still empty).
C3_OneRecordPerMessageInOrder ==
    Ended /\ call = "send" /\ result = "returned" =>
        /\ Len(Sends) = BatchLen
        /\ \A i \in 1..BatchLen :
              Sends[i].arg = messages.items[i] /\ Sends[i].res = "ok"
        /\ KeepsEntries
        /\ Added = IF entry_hist.is_recording THEN RecordsOf(BatchLen) ELSE <<>>
        /\ (~entry_hist.is_recording /\ entry_hist.past = <<>>
               => Len(hist.past) = 0)

\* Three messages sent with recording on: three records, not all alike.
C3_Witness ==
    /\ Ended /\ call = "send" /\ result = "returned"
    /\ BatchLen = 3
    /\ hist.is_recording
    /\ Len(Added) = 3
    /\ Added[1] # Added[2]

(* -------------------------------- C4 ----------------------------------- *)

LoginErrors ==
    {"ValueError", "SMTPAuthenticationError", "SMTPHeloError",
     "UnicodeDecodeError", "UnicodeEncodeError"}

\* Failures of one object of the batch before anything is submitted.
PreSubmissionErrors == {"AttributeError", "IOError", "TypeError"}

\* C5: a call makes at most two login attempts, and only with both
\* credentials present; the first uses their unicode() form; a second one
\* is made only after the first failed with an authentication failure and
\* uses the str() form; a successful attempt is the last one and the call
\* goes on past authentication; two authentication failures end the call
\* with the authentication ValueError and nothing submitted.
C5_AtMostTwoLogins ==
    /\ Len(Logins) <= 2
    /\ Len(Logins) >= 1 =>
          username # None /\ password # None /\ Logins[1].arg = "unicode"
    /\ Len(Logins) = 2 =>
          Logins[1].res = "SMTPAuthenticationError" /\ Logins[2].arg = "str"
    /\ \A n \in 1..Len(Logins) :
          Logins[n].res = "ok" =>
              /\ n = Len(Logins)
              /\ pc \in {"send_loop", "quit", "ended"}
              /\ result \notin LoginErrors
              /\ call = "send" /\ wire[Len(wire)].op = "login" =>
                    pc \in {"send_loop", "quit"}
                    \/ result \in PreSubmissionErrors
              /\ call = "test" => pc = "quit" \/ result = "returned"
    /\ Len(Logins) = 2 /\ Logins[2].res = "SMTPAuthenticationError" =>
          pc = "ended" /\ result = "ValueError" /\ Sends = <<>>

\* The first login fails, the retry succeeds, and a message is submitted.
C5_Witness ==
    /\ Len(Logins) = 2
    /\ Logins[1].res = "SMTPAuthenticationError"
    /\ Logins[2].res = "ok"
    /\ Len(Sends) >= 1

(* -------------------------------- C6 ----------------------------------- *)

\* C6: with the username or the password absent a call makes no login
\* attempt and, once connected, never ends with a login error; once the session is
\* upgraded, _test() goes on to quit and returns, and send() goes on to
\* its loop: it returns, or it has submitted a message, or its first
\* object failed before submission.
C6_NoLoginWithoutCredentials ==
    username = None \/ password = None =>
        /\ Logins = <<>>
        /\ pc # "login_retry"
        /\ Len(wire) >= 2 => result \notin LoginErrors
        /\ Ended /\ Len(wire) >= 2 /\ wire[2].res = "ok" =>
              IF call = "test"
                 THEN result = "returned" /\ wire[Len(wire)].op = "quit"
                 ELSE \/ result = "returned"
                      \/ Len(Sends) >= 1
                      \/ result \in PreSubmissionErrors /\ idx = 1

\* Without a username a message is submitted and the call returns.
C6_Witness ==
    /\ username = None /\ password # None
    /\ Ended /\ result = "returned"
    /\ Len(Sends) >= 1

(* -------------------------------- C7 ----------------------------------- *)

\* C7 as stated: a message accepted with some recipients refused always
\* gets its record in the history, carrying the refusals, and the loop
\* goes on.
C7_PartialRejectionAlwaysRecorded ==
    \A i \in 1..Len(Sends) :
        Sends[i].res = "ok" /\ Sends[i].errors # {} =>
            /\ Len(Added) >= i
            /\ Added[i] = Info(Sends[i].arg, Sends[i].errors)
            /\ idx > i

\* C7: a message accepted with some recipients refused is no failure: the
\* refusals come back as data; with recording on the message gets its one
\* record, carrying the refusals, at its place in the history; with
\* recording off the history is left as it was; either way the loop goes
\* on to the next message, and if the call fails later it is on account
\* of a later object.
C7_PartialRejectionRecordedWhenRecording ==
    \A i \in 1..Len(Sends) :
        Sends[i].res = "ok" /\ Sends[i].errors # {} =>
            /\ KeepsEntries
            /\ entry_hist.is_recording =>
                  /\ Len(Added) >= i
                  /\ Added[i] = Info(Sends[i].arg, Sends[i].errors)
                  /\ Len(Added) <= Len(Sends)
            /\ ~entry_hist.is_recording => Added = <<>>
            /\ call = "send"
            /\ idx > i
            /\ Ended /\ i = Len(Sends) /\ result # "returned" =>
                  i < BatchLen /\ result \in PreSubmissionErrors

\* With recording on, message 1 is accepted with a recipient refused, its
\* record carries the refusal, and message 2 is submitted.
C7_Witness ==
    /\ entry_hist.is_recording
    /\ Len(Sends) >= 2
    /\ Sends[1].res = "ok" /\ Sends[1].errors # {}
    /\ Len(Added) >= 1
    /\ Added[1].errors = Sends[1].errors

(* -------------------------------- C8 ----------------------------------- *)

Rank(op) ==
    CASE op = "connect"  -> 1
      [] op = "starttls" -> 2
      [] op = "login"    -> 3
      [] op = "quit"     -> 4
      [] OTHER           -> 5

\* C8: _test() calls the session in the order connect, STARTTLS, login,
\* quit (each once, login up to twice), never sendmail, and leaves the
\* history as it was, whether the call is running, has returned or has
\* failed; a call that returns has done them all (login when there are
\* credentials) and ended with quit.
C8_TestOnlyProbes ==
    call = "test" =>
        /\ Sends = <<>>
        /\ hist = entry_hist
        /\ \A i \in 1..Len(wire) : Rank(wire[i].op) <= 4
        /\ \A i, j \in 1..Len(wire) :
              i < j =>
                  /\ Rank(wire[i].op) <= Rank(wire[j].op)
                  /\ Rank(wire[i].op) = Rank(wire[j].op) =>
                        wire[i].op = "login"
        /\ Ended /\ result = "returned" =>
              /\ Len(wire) >= 3
              /\ wire[1].op = "connect"
              /\ wire[2].op = "starttls"
              /\ wire[Len(wire)].op = "quit"
              /\ conn = "closed"
              /\ username # None /\ password # None => Len(Logins) >= 1

\* A test with a retried login returns; the history holds a record.
C8_Witness ==
    /\ call = "test" /\ Ended /\ result = "returned"
    /\ Len(Logins) = 2
    /\ hist.past # <<>>

(* -------------------------------- C9 ----------------------------------- *)

\* C9: when the endpoint cannot be reached, for a name-resolution failure
\* and for a refused connection alike, the call ends with the library's
\* own error (the ValueError of _connect_to_server) and nothing else is
\* done on the session.
C9_ConnectFailureWrapped ==
    \A i \in 1..Len(wire) :
        wire[i].op = "connect" /\ wire[i].res \in {"gaierror", "refused"} =>
            /\ pc = "ended"
            /\ result = "ValueError"
            /\ Len(wire) = 1

(* -------------------------------- C10 ---------------------------------- *)

IsClear(i) == calls[i].op = "clear"
IsSetRecording(i) == calls[i].op = "set_recording"

Max(S) == CHOOSE x \in S : \A y \in S : y <= x

\* The place of the last clear among the calls, 0 when there is none.
LastClear ==
    LET S == {i \in 1..Len(calls) : IsClear(i)}
    IN  IF S = {} THEN 0 ELSE Max(S)

\* Whether recording is on just before call i.
RecordingBefore(i) ==
    LET S == {j \in 1..(i - 1) : IsSetRecording(j)}
    IN  IF S = {} THEN record_hist ELSE calls[Max(S)].flag

\* The items of the adds among the first n calls that were made after the
\* last clear with recording on, in order.
RECURSIVE AddsKept(_)
AddsKept(n) ==
    IF n = 0 THEN <<>>
    ELSE IF n > LastClear /\ calls[n].op = "add" /\ RecordingBefore(n)
         THEN Append(AddsKept(n - 1), calls[n].item)
         ELSE AddsKept(n - 1)

\* C10: after any sequence of set_recording, add and clear calls on a
\* _Hist, its list is, in order, the items added with recording on since
\* the last clear, and its flag is the one last set.
C10_HistIsAddsSinceClear ==
    /\ hist.past = AddsKept(Len(calls))
    /\ hist.is_recording = RecordingBefore(Len(calls) + 1)

\* An add, recording switched off, a clear, an add: the list is empty.
C10_Witness ==
    /\ record_hist
    /\ Len(calls) = 4
    /\ calls[1].op = "add"
    /\ calls[2].op = "set_recording" /\ ~calls[2].flag
    /\ calls[3].op = "clear"
    /\ calls[4].op = "add"
    /\ hist.past = <<>>

(* -------------------------------- C11 ---------------------------------- *)

\* The recipients given to the _Recipients call, as a list.
GivenRecipients == task.arg.items

\* The position of the first element of the given list that stands for the
\* canonical value v.
FirstOccurrence(v) ==
    CHOOSE i \in 1..Len(GivenRecipients) :
        /\ unicode_(GivenRecipients[i]) = v
        /\ \A j \in 1..(i - 1) : unicode_(GivenRecipients[j]) # v

RecipientsBuilt ==
    task.op = "recipients" /\ ret.state = "done" /\ ret.err = "none"

\* C11: whatever is given to _Recipients (one string, taken as one
\* recipient, or a list of strings with duplicates anywhere), the list it
\* holds has every distinct canonical value of the input exactly once, in
\* the order of the first occurrences in the input.
C11_DistinctInFirstOccurrenceOrder ==
    RecipientsBuilt =>
        LET out == ret.value
        IN  /\ Range(out) = {unicode_(GivenRecipients[i]) :
                                i \in 1..Len(GivenRecipients)}
            /\ \A i, j \in 1..Len(out) : i # j => out[i] # out[j]
            /\ \A i, j \in 1..Len(out) :
                   i < j => FirstOccurrence(out[i]) < FirstOccurrence(out[j])
            /\ task.arg.one => Len(out) = 1

\* A list with a duplicate between two other values, the same address once
\* as a byte string and once as a unicode object, has been deduplicated.
C11_Witness ==
    /\ RecipientsBuilt
    /\ ~task.arg.one
    /\ Len(GivenRecipients) = 3
    /\ GivenRecipients[1].text = GivenRecipients[3].text
    /\ GivenRecipients[1].kind # GivenRecipients[3].kind
    /\ GivenRecipients[2].text # GivenRecipients[1].text
    /\ Len(ret.value) = 2

\* One string given on its own has become a list of one recipient.
C11_WitnessSingle ==
    RecipientsBuilt /\ task.arg.one /\ ret.value = <<"a@x">>

(* -------------------------------- C12 ---------------------------------- *)

\* The attachments given to the Message, as a list.
GivenAttachments == task.arg.attachments.items

MakeDone == task.op = "make" /\ ret.state = "done"

MessageBuilt == MakeDone /\ ret.err = "none"

\* Some element of the attachments has no _is_attachment / make.
SomeNotAttachment ==
    \E i \in 1..Len(GivenAttachments) : GivenAttachments[i] \notin Attachments

\* The first part of a built message is its only text part, and the parts
\* after it are the built attachments, one each, in the order given.
BodyThenAttachments ==
    MessageBuilt =>
        LET parts == ret.value
        IN  /\ Len(parts) = 1 + Len(GivenAttachments)
            /\ parts[1].kind = "text"
            /\ parts[1].payload = task.arg.body.text
            /\ \A i \in 2..Len(parts) :
                   /\ parts[i].kind = "attachment"
                   /\ parts[i].of = GivenAttachments[i - 1]
            /\ task.arg.attachments.one => Len(parts) = 2

\* The header and body values convert to text, and every attachment before
\* the first element that is no Attachment builds.
NothingFailsBefore ==
    /\ task.arg.from_ = "ascii"
    /\ task.arg.subject # "bytes"
    /\ \A i \in 1..Len(task.arg.to.items) : IsAscii(task.arg.to.items[i].text)
    /\ task.arg.body.kind = "unicode"
          \/ \A i \in 1..Len(task.arg.body.text) : task.arg.body.text[i] < 128
    /\ \A i \in 1..Len(GivenAttachments) :
           (\A j \in 1..(i - 1) : GivenAttachments[j] \in Attachments)
               => GivenAttachments[i] # "att_io"

\* C12 as stated: a built Message has exactly one text part, the first,
\* followed by one part per attachment in the order given; and whenever an
\* element of the attachments lacks _is_attachment / make, make() fails
\* with the AttributeError for invalid attachments.
C12_BodyFirstAndInvalidAttachmentError ==
    /\ BodyThenAttachments
    /\ MakeDone /\ SomeNotAttachment => ret.err = "AttributeError"

\* C12, amended: a built Message has exactly one text part, the first,
\* followed by one part per attachment in the order given; whenever an
\* element of the attachments lacks _is_attachment / make, make() fails,
\* and it fails with the AttributeError for invalid attachments when no
\* earlier step (a header or body conversion, the build of an attachment
\* given before that element) has failed first.
C12_BodyFirstAndBuildFailsOnInvalid ==
    /\ BodyThenAttachments
    /\ MakeDone /\ SomeNotAttachment => ret.err # "none"
    /\ MakeDone /\ SomeNotAttachment /\ NothingFailsBefore
           => ret.err = "AttributeError"

\* A Message with an empty body and two attachments has been built.
C12_Witness ==
    /\ MessageBuilt
    /\ task.arg.body.text = <<>>
    /\ GivenAttachments = <<"att2", "att1">>
    /\ Len(ret.value) = 3

\* make() has failed on an element that is no Attachment, given after an
\* Attachment that was built.
C12_WitnessInvalid ==
    /\ MakeDone
    /\ GivenAttachments = <<"att1", "obj">>
    /\ ret.err = "AttributeError"

(* -------------------------------- C13 ---------------------------------- *)

EncodingChosen == task.op = "encoding" /\ ret.state = "done"

\* Every character of the text handed to _encoding is below code point n.
AllBelow(n) == \A i \in 1..Len(task.arg) : task.arg[i] < n

\* C13: _encoding tries us-ascii, iso-8859-1, utf8 in this order and
\* returns the first that encodes the whole text: us-ascii for pure ASCII
\* text, iso-8859-1 for text with a character outside ASCII and every
\* character in ISO-8859-1, utf8 for any other text.
C13_NarrowestEncoding ==
    EncodingChosen =>
        /\ AllBelow(128) => ret.value = "us-ascii"
        /\ ~AllBelow(128) /\ AllBelow(256) => ret.value = "iso-8859-1"
        /\ ~AllBelow(256) => ret.value = "utf8"
        /\ \E i \in 1..3 :
               /\ ret.value = <<"us-ascii", "iso-8859-1", "utf8">>[i]
               /\ CanEncode(task.arg, ret.value)
               /\ \A j \in 1..(i - 1) :
                      ~CanEncode(task.arg,
                                 <<"us-ascii", "iso-8859-1", "utf8">>[j])

\* A text of an ASCII character and an ISO-8859-1 character has been given
\* the single-byte encoding.
C13_Witness ==
    /\ EncodingChosen
    /\ task.arg = <<97, 233>>
    /\ ret.value = "iso-8859-1"

\* A text with a character outside ISO-8859-1 has been given utf8.
C13_WitnessUniversal ==
    /\ EncodingChosen
    /\ task.arg = <<233, 8364, 97>>
    /\ ret.value = "utf8"

(* -------------------------------- C14 ---------------------------------- *)

IsAccepted(e) == e.op = "sendmail" /\ e.res = "ok"

\* The submissions the session accepted, in order.
Accepted == SelectSeq(wire, IsAccepted)

\* What ends send() while it works on one object of the batch.
LoopFailures == {"AttributeError", "IOError"} \cup SendmailFailures

\* C14: a record is added only once sendmail has accepted the message, so
\* what a call has added is always the records of its accepted
\* submissions (nothing with recording off); and when send() fails on
\* object k of the batch (it is no Message, it cannot be serialized, or
\* sendmail raises, the sender refused or any other error), objects 1..k-1
\* were submitted and accepted, object k got no record, the records of
\* 1..k-1 and the earlier history are as they were, and nothing after k
\* was submitted.
C14_RecordOnlyAfterAcceptance ==
    /\ Added = IF entry_hist.is_recording
                  THEN [i \in 1..Len(Accepted) |->
                           Info(Accepted[i].arg, Accepted[i].errors)]
                  ELSE <<>>
    /\ Ended /\ call = "send" /\ result = "TypeError" =>
           Sends = <<>> /\ Added = <<>> /\ KeepsEntries
    /\ Ended /\ call = "send" /\ result \in LoopFailures =>
           LET k == idx
           IN  /\ k <= BatchLen
               /\ result = "AttributeError" => messages.items[k] \notin Messages
               /\ result = "IOError" => messages.items[k] = "m_io"
               /\ result \in SendmailFailures =>
                      Len(Sends) = k /\ Sends[k].res = result
               /\ result \notin SendmailFailures => Len(Sends) = k - 1
               /\ \A i \in 1..Len(Sends) : Sends[i].arg = messages.items[i]
               /\ \A i \in 1..(k - 1) : Sends[i].res = "ok"
               /\ Len(Accepted) = k - 1
               /\ KeepsEntries
               /\ Len(hist.past) =
                      Len(entry_hist.past)
                          + (IF entry_hist.is_recording THEN k - 1 ELSE 0)

\* With recording on, message 2 of 3 cannot be serialized: message 1 has
\* its record, message 2 has none, message 3 was not submitted.
C14_Witness ==
    /\ Ended /\ call = "send" /\ result = "IOError"
    /\ BatchLen = 3
    /\ idx = 2
    /\ entry_hist.is_recording
    /\ Len(Added) = 1
    /\ Len(Sends) = 1

\* With recording on, sendmail raises on message 2 for a reason other than
\* the sender: one record, of message 1.
C14_WitnessTransport ==
    /\ Ended /\ call = "send" /\ result = "SMTPDataError"
    /\ idx = 2
    /\ entry_hist.is_recording
    /\ Len(Sends) = 2
    /\ Len(Added) = 1

====
